---- MODULE Spec2Model ----
(***************************************************************************)
(* State-machine model of the TikZ compiler API (src/main.py).             *)
(*                                                                         *)
(* Each HTTP request occupies one slot r \in Reqs and walks through the    *)
(* statements of its handler; the temporary directories of all requests    *)
(* live in one shared file system fs.  The external tools (pdflatex,       *)
(* convert, kpsewhich) are black boxes: every outcome they can have is a   *)
(* nondeterministic choice.                                                *)
(*                                                                         *)
(* Text is a sequence of Unicode code points, an uploaded file a sequence  *)
(* of bytes, a file name a sequence of one-character strings, a message    *)
(* or a log a sequence of string fragments.                                *)
(*                                                                         *)
(* Not modelled: dpi and background (they only shape convert's command     *)
(* line), file_id, GET /.  The Vietnamese message texts are written in     *)
(* ASCII.  shutil.rmtree is taken to succeed on a directory that exists.   *)
(***************************************************************************)
EXTENDS Integers, Sequences, FiniteSets, TLC

VARIABLES
    pc,             \* pc[r]: the statement request r is at
    request,        \* request[r]: the TikZRequest / upload being served
    temp_dir,       \* temp_dir[r]: the local temp_dir of compile_tikz (0: unset)
    fs,             \* fs[d]: the directory d of the shared file system
    proc,           \* proc[r]: what the external tools did for r (pdflatex, convert)
    calls,          \* calls[r]: file-system and tool invocations made for r, in order
    response_data,  \* response_data[r]: the local response_data of compile_tikz
    exc,            \* exc[r]: the exception compile_tikz is raising (status 0: none)
    response,       \* response[r]: the HTTP response sent (status 0: none yet)
    probes,         \* what each /health probe did in the last health check
    health          \* the last /health response

vars == <<pc, request, temp_dir, fs, proc, calls, response_data, exc, response,
          probes, health>>

compile_vars == <<pc, request, temp_dir, fs, proc, calls, response_data, exc, response>>
health_vars == <<probes, health>>

---------------------------------------------------------------------------
(* Bounds *)

NumReq == 2      \* request slots served concurrently
MaxCode == 2     \* longest tikz_code, in code points
MaxBytes == 2    \* longest uploaded file, in bytes
MaxLog == 3      \* longest tikz.log, in fragments

Reqs == 1..NumReq
Dirs == 1..NumReq           \* names tempfile.mkdtemp can return
NoDir == 0

SeqsUpTo(S, n) == UNION {[1..k -> S] : k \in 0..n}

Min(S) == CHOOSE x \in S : \A y \in S : x <= y

---------------------------------------------------------------------------
(* Text: str.strip, bytes.decode('utf-8'), str.endswith *)

\* str.isspace for one code point (the Unicode White_Space characters Python strips).
IsSpace(c) ==
    c \in (9..13) \cup (28..32) \cup {133, 160, 5760} \cup (8192..8202)
          \cup {8232, 8233, 8239, 8287, 12288}

RECURSIVE LStrip(_)
LStrip(s) == IF s # <<>> /\ IsSpace(Head(s)) THEN LStrip(Tail(s)) ELSE s

RECURSIVE RStrip(_)
RStrip(s) ==
    IF s # <<>> /\ IsSpace(s[Len(s)]) THEN RStrip(SubSeq(s, 1, Len(s) - 1)) ELSE s

\* str.strip()
Strip(s) == RStrip(LStrip(s))

\* A mutant of IsEmptySource: tests the raw text, without strip().
IsEmptySourceNoStrip(code) == code = <<>>

\* main.py:279  `not request.tikz_code.strip()`
IsEmptySource(code) == Strip(code) = <<>>

IsContinuation(b) == b \in 128..191
IsLead2(b) == b \in 194..223

\* bytes.decode('utf-8') restricted to one- and two-byte sequences: every other
\* byte (a stray continuation byte, an overlong lead 0xC0/0xC1, 0xF5..0xFF, a
\* truncated sequence) raises UnicodeDecodeError.  Three- and four-byte leads
\* (0xE0..0xF4) are outside the byte alphabet used and are rejected like them.
RECURSIVE Utf8Decode(_)
Utf8Decode(b) ==
    IF b = <<>> THEN [ok |-> TRUE, text |-> <<>>]
    ELSE IF Head(b) < 128 THEN
        LET rest == Utf8Decode(Tail(b))
        IN  [ok |-> rest.ok, text |-> IF rest.ok THEN <<Head(b)>> \o rest.text ELSE <<>>]
    ELSE IF IsLead2(Head(b)) /\ Len(b) >= 2 /\ IsContinuation(b[2]) THEN
        LET rest == Utf8Decode(SubSeq(b, 3, Len(b)))
            cp == (Head(b) % 32) * 64 + (b[2] % 64)
        IN  [ok |-> rest.ok, text |-> IF rest.ok THEN <<cp>> \o rest.text ELSE <<>>]
    ELSE [ok |-> FALSE, text |-> <<>>]

\* A mutant of DecodeUpload: decode(errors='ignore'), invalid bytes are dropped.
RECURSIVE Utf8DecodeIgnore(_)
Utf8DecodeIgnore(b) ==
    IF b = <<>> THEN [ok |-> TRUE, text |-> <<>>]
    ELSE IF Head(b) < 128 THEN
        [ok |-> TRUE, text |-> <<Head(b)>> \o Utf8DecodeIgnore(Tail(b)).text]
    ELSE IF IsLead2(Head(b)) /\ Len(b) >= 2 /\ IsContinuation(b[2]) THEN
        [ok |-> TRUE,
         text |-> <<(Head(b) % 32) * 64 + (b[2] % 64)>>
                  \o Utf8DecodeIgnore(SubSeq(b, 3, Len(b))).text]
    ELSE Utf8DecodeIgnore(Tail(b))

\* main.py:330  content.decode('utf-8')
DecodeUpload(b) == Utf8Decode(b)

\* str.endswith(suffix)
EndsWith(s, suffix) ==
    /\ Len(s) >= Len(suffix)
    /\ SubSeq(s, Len(s) - Len(suffix) + 1, Len(s)) = suffix

AllowedSuffixes ==
    { <<".", "t", "e", "x">>, <<".", "t", "i", "k", "z">>, <<".", "t", "x", "t">> }

\* main.py:325  file.filename.endswith(('.tex', '.tikz', '.txt'))
HasAllowedExtension(name) == \E suf \in AllowedSuffixes : EndsWith(name, suf)

---------------------------------------------------------------------------
(* Files.  A file's content is a record; Absent is a file that does not    *)
(* exist.  The tools are black boxes whose output is determined by their   *)
(* input file.                                                             *)

Absent == [kind |-> "absent"]

\* main.py:87  LATEX_TEMPLATE.format(tikz_content=tikz_code): the fixed document
\* skeleton around the user's fragment.
TexOf(code) ==
    [kind |-> "tex", head |-> "\\begin{tikzpicture}", tikz_content |-> code,
     tail |-> "\\end{tikzpicture}"]

PdfOf(tex) == [kind |-> "pdf", src |-> tex]          \* what pdflatex makes of tikz.tex
PngOf(pdf) == [kind |-> "png", src |-> pdf]          \* what convert makes of tikz.pdf
LogOf(text) == [kind |-> "log", text |-> text]

None == [kind |-> "None"]
\* main.py:185-188  file_to_base64: an injective encoding of the file's bytes.
Base64(content) == [kind |-> "base64", data |-> content]

NoDirectory == [exists |-> FALSE, tex |-> Absent, log |-> Absent, pdf |-> Absent, png |-> Absent]
EmptyDirectory == [NoDirectory EXCEPT !.exists = TRUE]

---------------------------------------------------------------------------
(* The compiler's log and the error text made of it (main.py:107-134).     *)
(* A log is a sequence of fragments: the substrings the code searches for, *)
(* other text, and the newline.                                            *)

LatexError == "! LaTeX Error:"
UndefinedCS == "! Undefined control sequence"
TikzError == "! Package tikz Error:"
PgfplotsError == "! Package pgfplots Error:"
LibraryNotFound == "library not found"
LibraryNotFoundCaps == "Library Not Found"
OtherText == "text"
Newline == "\n"

LogFragments ==
    {LatexError, UndefinedCS, TikzError, PgfplotsError, LibraryNotFound,
     LibraryNotFoundCaps, OtherText, Newline}

UnknownError == "Unknown LaTeX error"
UndefinedCSText == "Undefined control sequence - co the thieu package hoac library TikZ"
TikzErrorText == "TikZ package error - kiem tra syntax TikZ code"
PgfplotsErrorText == "PGFPlots error - kiem tra plot syntax"
LibraryText == "TikZ library not found - thu bo mot so usetikzlibrary"

\* `fragment in text`
Contains(text, fragment) == \E i \in 1..Len(text) : text[i] = fragment

\* str.lower() of one fragment
LowerFragment(f) ==
    CASE f = LibraryNotFoundCaps -> LibraryNotFound
      [] f = LatexError -> "! latex error:"
      [] f = UndefinedCS -> "! undefined control sequence"
      [] f = TikzError -> "! package tikz error:"
      [] f = PgfplotsError -> "! package pgfplots error:"
      [] OTHER -> f

\* str.lower()
Lower(text) == [i \in 1..Len(text) |-> LowerFragment(text[i])]

\* str.split('\n'): the lines of a text (one more than its newlines)
RECURSIVE Split(_)
Split(text) ==
    IF \A i \in 1..Len(text) : text[i] # Newline THEN <<text>>
    ELSE LET k == Min({i \in 1..Len(text) : text[i] = Newline})
         IN  <<SubSeq(text, 1, k - 1)>> \o Split(SubSeq(text, k + 1, Len(text)))

\* main.py:118-122  the first line holding "! LaTeX Error:" that is not the last
\* line, joined with the line after it; error_details keeps its initial value when
\* there is none.
LatexErrorLine(log_content) ==
    LET lines == Split(log_content)
        hits == {i \in 1..Len(lines) : Contains(lines[i], LatexError) /\ i < Len(lines)}
    IN  IF hits = {} THEN <<UnknownError>>
        ELSE lines[Min(hits)] \o <<" ">> \o lines[Min(hits) + 1]

\* main.py:110-132  error_details from tikz.log (when it exists) and stderr
ErrorDetails(log, stderr) ==
    IF log = Absent THEN <<UnknownError>>
    ELSE IF Contains(log.text, LatexError) THEN LatexErrorLine(log.text)
    ELSE IF Contains(log.text, UndefinedCS) THEN <<UndefinedCSText>>
    ELSE IF Contains(log.text, TikzError) THEN <<TikzErrorText>>
    ELSE IF Contains(log.text, PgfplotsError) THEN <<PgfplotsErrorText>>
    ELSE IF Contains(Lower(log.text), LibraryNotFound) THEN <<LibraryText>>
    ELSE IF stderr # "" THEN <<stderr>>
    ELSE <<UnknownError>>

---------------------------------------------------------------------------
(* Exceptions and responses *)

NoException == [status |-> 0, detail |-> <<>>]
HTTPException(status, detail) == [status |-> status, detail |-> detail]

\* str(e) of an HTTPException: "<status>: <detail>"
StrHTTPException(e) == <<ToString(e.status), ": ">> \o e.detail

NoResponse == [status |-> 0, success |-> FALSE, message |-> <<>>,
               pdf_base64 |-> None, png_base64 |-> None]

\* main.py:293-297
InitialResponseData == [pdf_base64 |-> None, png_base64 |-> None]

NoProc == [pdflatex |-> "not run", convert |-> "not run", log |-> Absent, stderr |-> ""]

NoRequest == [endpoint |-> "", filename |-> <<>>, content |-> <<>>,
              tikz_code |-> <<>>, output_format |-> ""]

---------------------------------------------------------------------------
(* Arrival of a request *)

\* POST /compile with a TikZRequest body (main.py:29-33, 275-276)
ReceiveCompile(r, env) ==
    /\ pc[r] = "idle"
    /\ \E code \in env.codes, fmt \in env.formats :
        request' = [request EXCEPT ![r] =
            [endpoint |-> "/compile", filename |-> <<>>, content |-> <<>>,
             tikz_code |-> code, output_format |-> fmt]]
    /\ pc' = [pc EXCEPT ![r] = "compile_tikz"]
    /\ UNCHANGED <<temp_dir, fs, proc, calls, response_data, exc, response>>
    /\ UNCHANGED health_vars

\* POST /compile-file with an uploaded file (main.py:321-322)
ReceiveCompileFile(r, env) ==
    /\ pc[r] = "idle"
    /\ \E name \in env.filenames, content \in env.contents :
        request' = [request EXCEPT ![r] =
            [endpoint |-> "/compile-file", filename |-> name, content |-> content,
             tikz_code |-> <<>>, output_format |-> ""]]
    /\ pc' = [pc EXCEPT ![r] = "compile_tikz_file"]
    /\ UNCHANGED <<temp_dir, fs, proc, calls, response_data, exc, response>>
    /\ UNCHANGED health_vars

---------------------------------------------------------------------------
(* compile_tikz_file, up to its call of compile_tikz (main.py:325-333, 335-336) *)

CompileTikzFile(r) ==
    /\ pc[r] = "compile_tikz_file"
    /\ IF ~HasAllowedExtension(request[r].filename) THEN
            /\ response' = [response EXCEPT ![r] =
                    [NoResponse EXCEPT !.status = 400,
                        !.message = <<"File phai co duoi .tex, .tikz hoac .txt">>]]
            /\ pc' = [pc EXCEPT ![r] = "done"]
            /\ UNCHANGED request
       ELSE IF ~DecodeUpload(request[r].content).ok THEN
            /\ response' = [response EXCEPT ![r] =
                    [NoResponse EXCEPT !.status = 400,
                        !.message = <<"File khong dung dinh dang UTF-8">>]]
            /\ pc' = [pc EXCEPT ![r] = "done"]
            /\ UNCHANGED request
       ELSE
            /\ request' = [request EXCEPT
                    ![r].tikz_code = DecodeUpload(request[r].content).text,
                    ![r].output_format = "both"]
            /\ pc' = [pc EXCEPT ![r] = "compile_tikz"]
            /\ UNCHANGED response
    /\ UNCHANGED <<temp_dir, fs, proc, calls, response_data, exc>>
    /\ UNCHANGED health_vars

---------------------------------------------------------------------------
(* compile_tikz *)

\* main.py:279-280  the empty-source check, before the try block
Validate(r) ==
    /\ pc[r] = "compile_tikz"
    /\ IF IsEmptySource(request[r].tikz_code) THEN
            /\ exc' = [exc EXCEPT ![r] =
                    HTTPException(400, <<"TikZ code khong duoc de trong">>)]
            /\ pc' = [pc EXCEPT ![r] = "return"]
       ELSE
            /\ pc' = [pc EXCEPT ![r] = "mkdtemp"]
            /\ UNCHANGED exc
    /\ UNCHANGED <<request, temp_dir, fs, proc, calls, response_data, response>>
    /\ UNCHANGED health_vars

\* A mutant of FreshNames: a fixed or guessable name, taken or not.
AnyNames(f) == Dirs

\* tempfile.mkdtemp creates a directory under a name no existing entry has.
FreshNames(f) == {d \in Dirs : ~f[d].exists}

\* main.py:283-284
Mkdtemp(r) ==
    /\ pc[r] = "mkdtemp"
    /\ \E d \in FreshNames(fs) :
        /\ fs' = [fs EXCEPT ![d] = EmptyDirectory]
        /\ temp_dir' = [temp_dir EXCEPT ![r] = d]
    /\ calls' = [calls EXCEPT ![r] = Append(@, "mkdtemp")]
    /\ pc' = [pc EXCEPT ![r] = "create_latex_file"]
    /\ UNCHANGED <<request, proc, response_data, exc, response>>
    /\ UNCHANGED health_vars

\* main.py:311-312  except Exception as e: raise HTTPException(500, ...)
CompileError(text) == HTTPException(500, <<"Loi bien dich: ">> \o text)

\* main.py:288, 85-93  create_latex_file; open() or write() may fail (OSError)
CreateLatexFile(r, env) ==
    /\ pc[r] = "create_latex_file"
    /\ \E io_ok \in env.io :
        IF io_ok /\ fs[temp_dir[r]].exists THEN
            /\ fs' = [fs EXCEPT ![temp_dir[r]].tex = TexOf(request[r].tikz_code)]
            /\ calls' = [calls EXCEPT ![r] = Append(@, "write tikz.tex")]
            /\ pc' = [pc EXCEPT ![r] = "compile_latex_to_pdf"]
            /\ UNCHANGED exc
        ELSE
            /\ exc' = [exc EXCEPT ![r] = CompileError(<<"[Errno] cannot write tikz.tex">>)]
            /\ calls' = [calls EXCEPT ![r] = Append(@, "write tikz.tex: OSError")]
            /\ pc' = [pc EXCEPT ![r] = "finally"]
            /\ UNCHANGED fs
    /\ UNCHANGED <<request, temp_dir, proc, response_data, response>>
    /\ UNCHANGED health_vars

---------------------------------------------------------------------------
(* compile_latex_to_pdf (main.py:95-145) *)

PdflatexOutcomes == {"exit 0, pdf", "exit 0, no pdf", "nonzero", "timeout", "oserror"}
ToolFailures == {"exit 0, no pdf", "exit 0, no png", "nonzero", "timeout", "oserror"}

DefaultLog == LogOf(<<OtherText>>)

\* What a pdflatex run leaves in its output directory: tikz.log, and tikz.pdf made
\* of the tikz.tex it read.  new_log = Absent: the run wrote no log.
PdflatexEffect(out, dir, new_log) ==
    IF ~dir.exists \/ out = "oserror" THEN dir
    ELSE [dir EXCEPT !.log = IF new_log = Absent THEN @ ELSE new_log,
                     !.pdf = IF out = "exit 0, pdf" THEN PdfOf(dir.tex) ELSE @]

\* A mutant of CompileLatexResult: a zero exit code is taken as success, the
\* existence of tikz.pdf is not checked.
CompileLatexResultNoPdfCheck(out, dir, stderr) ==
    CASE out = "oserror" -> [ok |-> FALSE, detail |-> <<"Compilation error: ", "[Errno 2] pdflatex">>]
      [] out = "timeout" -> [ok |-> FALSE, detail |-> <<"LaTeX compilation timeout (45s)">>]
      [] out = "nonzero" ->
            [ok |-> FALSE,
             detail |-> <<"Compilation error: ", "LaTeX compilation failed: ">>
                        \o ErrorDetails(dir.log, stderr)]
      [] OTHER -> [ok |-> TRUE, detail |-> <<>>]

\* main.py:97-145  what compile_latex_to_pdf makes of the run: the returned pdf_file
\* (ok) or the text of the exception it raises.  An exception raised inside the try
\* block is caught at line 144 and wrapped; the one of line 143 is not.
CompileLatexResult(out, dir, stderr) ==
    CASE out = "oserror" -> [ok |-> FALSE, detail |-> <<"Compilation error: ", "[Errno 2] pdflatex">>]
      [] out = "timeout" -> [ok |-> FALSE, detail |-> <<"LaTeX compilation timeout (45s)">>]
      [] out = "nonzero" ->
            [ok |-> FALSE,
             detail |-> <<"Compilation error: ", "LaTeX compilation failed: ">>
                        \o ErrorDetails(dir.log, stderr)]
      [] OTHER ->
            IF dir.pdf = Absent
            THEN [ok |-> FALSE,
                  detail |-> <<"Compilation error: ",
                               "PDF file was not generated - check LaTeX syntax">>]
            ELSE [ok |-> TRUE, detail |-> <<>>]

\* main.py:291-297  pdf_file = compile_latex_to_pdf(latex_file, temp_dir)
CompileLatexToPdf(r, env) ==
    /\ pc[r] = "compile_latex_to_pdf"
    /\ \E out \in env.pdflatex, new_log \in env.logs \cup {DefaultLog},
          stderr \in env.stderrs \cup {""} :
        LET dir == fs[temp_dir[r]]
            after == PdflatexEffect(out, dir, new_log)
            res == CompileLatexResult(out, after, stderr)
        IN  /\ out \in {"exit 0, pdf", "exit 0, no pdf"} => dir.exists /\ dir.tex # Absent
            /\ out # "nonzero" => new_log = DefaultLog /\ stderr = ""
            /\ fs' = [fs EXCEPT ![temp_dir[r]] = after]
            /\ proc' = [proc EXCEPT ![r].pdflatex = out, ![r].log = after.log,
                                    ![r].stderr = stderr]
            /\ IF res.ok THEN
                    /\ response_data' = [response_data EXCEPT ![r] = InitialResponseData]
                    /\ pc' = [pc EXCEPT ![r] = "output_pdf"]
                    /\ UNCHANGED exc
               ELSE
                    /\ exc' = [exc EXCEPT ![r] = CompileError(res.detail)]
                    /\ pc' = [pc EXCEPT ![r] = "finally"]
                    /\ UNCHANGED response_data
    /\ calls' = [calls EXCEPT ![r] = Append(@, "pdflatex")]
    /\ UNCHANGED <<request, temp_dir, response>>
    /\ UNCHANGED health_vars

---------------------------------------------------------------------------
(* The output formats (main.py:299-309) *)

\* A mutant of WantsPdf: only "pdf" yields a PDF.
WantsPdfOnly(fmt) == fmt = "pdf"

\* main.py:300
WantsPdf(fmt) == fmt \in {"pdf", "both"}

\* A mutant of WantsPng: every format but "pdf" is rasterized.
WantsPngDefault(fmt) == fmt # "pdf"

\* main.py:304
WantsPng(fmt) == fmt \in {"png", "both"}

\* main.py:300-302  file_to_base64(pdf_file); open() or read() may fail
OutputPdf(r, env) ==
    /\ pc[r] = "output_pdf"
    /\ IF WantsPdf(request[r].output_format) THEN
            \E io_ok \in env.io :
                IF io_ok /\ fs[temp_dir[r]].pdf # Absent THEN
                    /\ response_data' = [response_data EXCEPT
                            ![r].pdf_base64 = Base64(fs[temp_dir[r]].pdf)]
                    /\ pc' = [pc EXCEPT ![r] = "output_png"]
                    /\ calls' = [calls EXCEPT ![r] = Append(@, "read tikz.pdf")]
                    /\ UNCHANGED exc
                ELSE
                    /\ exc' = [exc EXCEPT ![r] = CompileError(<<"[Errno] cannot read tikz.pdf">>)]
                    /\ pc' = [pc EXCEPT ![r] = "finally"]
                    /\ calls' = [calls EXCEPT ![r] = Append(@, "read tikz.pdf")]
                    /\ UNCHANGED response_data
       ELSE
            /\ pc' = [pc EXCEPT ![r] = "output_png"]
            /\ UNCHANGED <<response_data, exc, calls>>
    /\ UNCHANGED <<request, temp_dir, fs, proc, response>>
    /\ UNCHANGED health_vars

ConvertOutcomes == {"exit 0, png", "exit 0, no png", "nonzero", "timeout", "oserror"}

\* What a convert run leaves in the directory: tikz.png made of the tikz.pdf it read.
ConvertEffect(out, dir) ==
    IF dir.exists /\ out = "exit 0, png" THEN [dir EXCEPT !.png = PngOf(dir.pdf)] ELSE dir

\* main.py:149-183  what convert_pdf_to_png makes of the run: the returned png_file
\* (ok) or the text of the exception it raises.
ConvertResult(out, dir, stderr) ==
    CASE out = "oserror" -> [ok |-> FALSE, detail |-> <<"Conversion error: ", "[Errno 2] convert">>]
      [] out = "timeout" -> [ok |-> FALSE, detail |-> <<"PDF to PNG conversion timeout">>]
      [] out = "nonzero" ->
            [ok |-> FALSE,
             detail |-> <<"Conversion error: ", "PDF to PNG conversion failed: ", stderr>>]
      [] OTHER ->
            IF dir.png = Absent
            THEN [ok |-> FALSE,
                  detail |-> <<"Conversion error: ", "PNG file was not generated">>]
            ELSE [ok |-> TRUE, detail |-> <<>>]

\* main.py:304-309  convert_pdf_to_png, file_to_base64(png_file), and the return
OutputPng(r, env) ==
    /\ pc[r] = "output_png"
    /\ IF WantsPng(request[r].output_format) THEN
            \E out \in env.convert, stderr \in env.stderrs \cup {""}, io_ok \in env.io \cup {TRUE} :
                LET dir == fs[temp_dir[r]]
                    after == ConvertEffect(out, dir)
                    res == ConvertResult(out, after, stderr)
                IN  /\ out \in {"exit 0, png", "exit 0, no png"} => dir.exists /\ dir.pdf # Absent
                    /\ out # "nonzero" => stderr = ""
                    /\ out # "exit 0, png" => io_ok
                    /\ fs' = [fs EXCEPT ![temp_dir[r]] = after]
                    /\ proc' = [proc EXCEPT ![r].convert = out]
                    /\ IF ~res.ok THEN
                            /\ exc' = [exc EXCEPT ![r] = CompileError(res.detail)]
                            /\ calls' = [calls EXCEPT ![r] = Append(@, "convert")]
                            /\ UNCHANGED response_data
                       ELSE IF io_ok /\ after.png # Absent THEN
                            /\ response_data' = [response_data EXCEPT
                                    ![r].png_base64 = Base64(after.png)]
                            /\ calls' = [calls EXCEPT ![r] = @ \o <<"convert", "read tikz.png">>]
                            /\ UNCHANGED exc
                       ELSE
                            /\ exc' = [exc EXCEPT ![r] =
                                    CompileError(<<"[Errno] cannot read tikz.png">>)]
                            /\ calls' = [calls EXCEPT ![r] = @ \o <<"convert", "read tikz.png">>]
                            /\ UNCHANGED response_data
       ELSE UNCHANGED <<fs, proc, response_data, exc, calls>>
    /\ pc' = [pc EXCEPT ![r] = "finally"]
    /\ UNCHANGED <<request, temp_dir, response>>
    /\ UNCHANGED health_vars

\* A mutant of RemoveTree: the directory is removed only when the request succeeded.
RemoveTreeOnSuccess(f, d, failed) == IF failed THEN f ELSE [f EXCEPT ![d] = NoDirectory]

\* shutil.rmtree(temp_dir): the directory and all it holds are gone (a directory that
\* does not exist raises, and line 318 passes over it).
RemoveTree(f, d, failed) == [f EXCEPT ![d] = NoDirectory]

\* main.py:314-319  finally: shutil.rmtree(temp_dir)
Cleanup(r) ==
    /\ pc[r] = "finally"
    /\ fs' = RemoveTree(fs, temp_dir[r], exc[r].status # 0)
    /\ calls' = [calls EXCEPT ![r] = Append(@, "rmtree")]
    /\ pc' = [pc EXCEPT ![r] = "return"]
    /\ UNCHANGED <<request, temp_dir, proc, response_data, exc, response>>
    /\ UNCHANGED health_vars

---------------------------------------------------------------------------
(* The end of the handlers *)

\* main.py:280, 309, 312  what compile_tikz returns or raises
CompileTikzOutcome(e, data) ==
    IF e.status # 0
    THEN [NoResponse EXCEPT !.status = e.status, !.message = e.detail]
    ELSE [status |-> 200, success |-> TRUE, message |-> <<"Bien dich thanh cong">>,
          pdf_base64 |-> data.pdf_base64, png_base64 |-> data.png_base64]

\* main.py:333-338  compile_tikz_file around its call of compile_tikz: an
\* HTTPException is an Exception and no UnicodeDecodeError, so line 337 catches it.
CompileFileOutcome(e, data) ==
    IF e.status # 0
    THEN [NoResponse EXCEPT !.status = 500,
                            !.message = <<"Loi xu ly file: ">> \o StrHTTPException(e)]
    ELSE CompileTikzOutcome(e, data)

Return(r) ==
    /\ pc[r] = "return"
    /\ response' = [response EXCEPT ![r] =
            IF request[r].endpoint = "/compile"
            THEN CompileTikzOutcome(exc[r], response_data[r])
            ELSE CompileFileOutcome(exc[r], response_data[r])]
    /\ pc' = [pc EXCEPT ![r] = "done"]
    /\ UNCHANGED <<request, temp_dir, fs, proc, calls, response_data, exc>>
    /\ UNCHANGED health_vars

\* The response is sent and the slot serves the next request; the handler's locals
\* are gone.
Finish(r) ==
    /\ pc[r] = "done"
    /\ pc' = [pc EXCEPT ![r] = "idle"]
    /\ request' = [request EXCEPT ![r] = NoRequest]
    /\ temp_dir' = [temp_dir EXCEPT ![r] = NoDir]
    /\ proc' = [proc EXCEPT ![r] = NoProc]
    /\ calls' = [calls EXCEPT ![r] = <<>>]
    /\ response_data' = [response_data EXCEPT ![r] = InitialResponseData]
    /\ exc' = [exc EXCEPT ![r] = NoException]
    /\ response' = [response EXCEPT ![r] = NoResponse]
    /\ UNCHANGED fs
    /\ UNCHANGED health_vars

---------------------------------------------------------------------------
(* GET /health (main.py:190-228, 245-273) *)

Libraries == <<"arrows", "decorations", "positioning", "shapes">>
LibrarySet == {Libraries[i] : i \in 1..Len(Libraries)}
MainProbes == {"pdflatex", "tikz.sty", "pgfplots.sty", "convert"}
ProbeNames == MainProbes \cup LibrarySet
ProbeOutcomes == {"exit 0", "nonzero", "raise"}
Missing == "<no key>"

\* Which probes run, given what each would do: a raise of pdflatex, tikz.sty,
\* pgfplots.sty or convert leaves the try block (main.py:225); a raise of a library
\* lookup is passed over (main.py:216-217).
Reached(o, p) ==
    CASE p = "pdflatex" -> TRUE
      [] p = "tikz.sty" -> o["pdflatex"] # "raise"
      [] p = "pgfplots.sty" -> o["pdflatex"] # "raise" /\ o["tikz.sty"] # "raise"
      [] OTHER -> /\ o["pdflatex"] # "raise"
                  /\ o["tikz.sty"] # "raise"
                  /\ o["pgfplots.sty"] # "raise"

Recorded(o, p, yes, no) ==
    IF Reached(o, p) /\ o[p] # "raise" THEN (IF o[p] = "exit 0" THEN yes ELSE no)
    ELSE Missing

\* main.py:190-228  check_tex_installation
CheckTexInstallation(o) ==
    [pdflatex |-> Recorded(o, "pdflatex", "available", "not available"),
     tikz_package |-> Recorded(o, "tikz.sty", "found", "not found"),
     pgfplots_package |-> Recorded(o, "pgfplots.sty", "found", "not found"),
     tikz_libraries |->
        IF Reached(o, "convert")
        THEN SelectSeq(Libraries, LAMBDA lib : o[lib] = "exit 0")
        ELSE <<Missing>>,
     imagemagick |-> Recorded(o, "convert", "available", "not available"),
     error |-> \E p \in MainProbes : Reached(o, p) /\ o[p] = "raise"]

\* A mutant of IsHealthy: the pgfplots lookup counts as critical too.
IsHealthyWithPgfplots(tex_info) ==
    /\ tex_info.pdflatex = "available"
    /\ tex_info.tikz_package = "found"
    /\ tex_info.pgfplots_package = "found"
    /\ tex_info.imagemagick = "available"

\* main.py:252-258  critical_components, is_healthy
IsHealthy(tex_info) ==
    /\ tex_info.pdflatex = "available"
    /\ tex_info.tikz_package = "found"
    /\ tex_info.imagemagick = "available"

\* main.py:192  info = {}
NoInfo ==
    [pdflatex |-> Missing, tikz_package |-> Missing, pgfplots_package |-> Missing,
     tikz_libraries |-> <<Missing>>, imagemagick |-> Missing, error |-> FALSE]

NoHealth == [status |-> "", info |-> NoInfo]

\* main.py:245-266  health_check
HealthCheck ==
    /\ health.status = ""
    /\ \E o \in [ProbeNames -> ProbeOutcomes] :
        /\ probes' = [p \in ProbeNames |-> IF Reached(o, p) THEN o[p] ELSE "not run"]
        /\ health' = [status |-> IF IsHealthy(CheckTexInstallation(o))
                                 THEN "healthy" ELSE "unhealthy",
                      info |-> CheckTexInstallation(o)]
    /\ UNCHANGED compile_vars

\* The response is sent.
HealthFinish ==
    /\ health.status # ""
    /\ health' = NoHealth
    /\ probes' = [p \in ProbeNames |-> "not run"]
    /\ UNCHANGED compile_vars

---------------------------------------------------------------------------
(* Initial state: no request in flight, no temporary directory. *)

Init ==
    /\ pc = [r \in Reqs |-> "idle"]
    /\ request = [r \in Reqs |-> NoRequest]
    /\ temp_dir = [r \in Reqs |-> NoDir]
    /\ fs = [d \in Dirs |-> NoDirectory]
    /\ proc = [r \in Reqs |-> NoProc]
    /\ calls = [r \in Reqs |-> <<>>]
    /\ response_data = [r \in Reqs |-> InitialResponseData]
    /\ exc = [r \in Reqs |-> NoException]
    /\ response = [r \in Reqs |-> NoResponse]
    /\ probes = [p \in ProbeNames |-> "not run"]
    /\ health = NoHealth

---------------------------------------------------------------------------
(* Inputs and environments.  An environment names the requests that arrive and   *)
(* what the tools and the file system may do: codes, formats, filenames and      *)
(* contents of the requests, the outcomes of pdflatex and convert, the logs and  *)
(* stderr texts of a failed run, and whether reading and writing files can fail  *)
(* (io: TRUE succeeds, FALSE raises OSError).                                    *)

CodePoints == {32, 10, 97, 233}          \* ' ', '\n', 'a', e-acute
Codes == SeqsUpTo(CodePoints, MaxCode)
Formats == {"png", "pdf", "both", "svg"}  \* output_format is any str

Bytes == {32, 97, 195, 169, 255}         \* ' ', 'a', 0xC3 0xA9 (e-acute), 0xFF
Contents == SeqsUpTo(Bytes, MaxBytes)
Filenames ==
    { <<"a", ".", "t", "e", "x">>, <<"a", ".", "t", "i", "k", "z">>,
      <<"a", ".", "t", "x", "t">>, <<"a", ".", "p", "d", "f">>, <<"t", "e", "x">> }

Logs == {Absent} \cup {LogOf(t) : t \in SeqsUpTo(LogFragments, MaxLog)}
Stderrs == {"", "stderr text"}

\* Concurrent requests: two distinct sources, one failure of each tool.
ConcurrentEnv ==
    [codes |-> { <<97>>, <<233>> }, formats |-> {"both"},
     filenames |-> {}, contents |-> {},
     pdflatex |-> {"exit 0, pdf", "nonzero"}, convert |-> {"exit 0, png", "timeout"},
     logs |-> {Absent}, stderrs |-> {}, io |-> {TRUE}]

\* All sources, formats and uploads; every outcome of the tools and of file I/O.
InputEnv ==
    [codes |-> Codes, formats |-> Formats,
     filenames |-> Filenames, contents |-> Contents,
     pdflatex |-> PdflatexOutcomes, convert |-> ConvertOutcomes,
     logs |-> {Absent}, stderrs |-> {}, io |-> BOOLEAN]

\* One source; every log and stderr text of the compiler.
LogEnv ==
    [codes |-> { <<97>> }, formats |-> {"pdf", "png"},
     filenames |-> {}, contents |-> {},
     pdflatex |-> PdflatexOutcomes, convert |-> ConvertOutcomes,
     logs |-> Logs, stderrs |-> Stderrs, io |-> {TRUE}]

---------------------------------------------------------------------------
(* Specifications *)

\* The steps of compile_tikz for request r
CompileTikz(r, env) ==
    \/ Validate(r)
    \/ Mkdtemp(r)
    \/ CreateLatexFile(r, env)
    \/ CompileLatexToPdf(r, env)
    \/ OutputPdf(r, env)
    \/ OutputPng(r, env)
    \/ Cleanup(r)
    \/ Return(r)
    \/ Finish(r)

\* POST /compile requests served concurrently, each step of a handler interleaved
\* with the others'.
Next ==
    \E r \in Reqs :
        \/ ReceiveCompile(r, ConcurrentEnv)
        \/ CompileTikz(r, ConcurrentEnv)

Spec == Init /\ [][Next]_vars

\* One request after the other, over all sources, formats and uploads.
NextInput ==
    \E r \in {1} :
        \/ ReceiveCompile(r, InputEnv)
        \/ ReceiveCompileFile(r, InputEnv)
        \/ CompileTikzFile(r)
        \/ CompileTikz(r, InputEnv)

SpecInput == Init /\ [][NextInput]_vars

\* One request after the other, over all logs and stderr texts of the compiler.
NextLog ==
    \E r \in {1} :
        \/ ReceiveCompile(r, LogEnv)
        \/ CompileTikz(r, LogEnv)

SpecLog == Init /\ [][NextLog]_vars

\* Health checks, one after the other.
NextHealth == HealthCheck \/ HealthFinish

SpecHealth == Init /\ [][NextHealth]_vars

---------------------------------------------------------------------------
(* Properties *)

\* The statements of compile_tikz between mkdtemp and the end of the finally block
InTry == {"create_latex_file", "compile_latex_to_pdf", "output_pdf", "output_png", "finally"}
Completed(r) == pc[r] \in {"return", "done"}
Count(seq, x) == Cardinality({i \in 1..Len(seq) : seq[i] = x})
Before(seq, x, y) == \E i, j \in 1..Len(seq) : i < j /\ seq[i] = x /\ seq[j] = y

\* Empty, or nothing but ASCII blanks, tabs and line ends
Blank(text) == \A i \in 1..Len(text) : text[i] \in {9, 10, 13, 32}

\* Well-formed UTF-8 over one- and two-byte sequences: every byte is ASCII, a lead
\* byte followed by a continuation byte, or a continuation byte after a lead byte.
ValidUtf8(b) ==
    \A i \in 1..Len(b) :
        \/ b[i] < 128
        \/ b[i] \in 194..223 /\ i < Len(b) /\ b[i + 1] \in 128..191
        \/ b[i] \in 128..191 /\ i > 1 /\ b[i - 1] \in 194..223

C2_BlankSourceRejected ==
    \A r \in Reqs :
        /\ request[r].endpoint = "/compile"
        /\ Blank(request[r].tikz_code)
        => /\ temp_dir[r] = NoDir
           /\ calls[r] = <<>>
           /\ proc[r] = NoProc
           /\ pc[r] = "done" => response[r].status = 400

\* C2 witness: a source of a blank and a line end was answered with 400.
C2_Witness ==
    \E r \in Reqs :
        /\ request[r].endpoint = "/compile"
        /\ request[r].tikz_code = <<32, 10>>
        /\ pc[r] = "done"
        /\ response[r].status = 400

\* C4: a successful POST /compile response holds pdf_base64 exactly when
\* output_format is "pdf" or "both", and png_base64 exactly when it is "png" or
\* "both".
C4_FieldsMatchFormat ==
    \A r \in Reqs :
        /\ request[r].endpoint = "/compile"
        /\ pc[r] = "done"
        /\ response[r].success
        => /\ response[r].pdf_base64 # None <=> request[r].output_format \in {"pdf", "both"}
           /\ response[r].png_base64 # None <=> request[r].output_format \in {"png", "both"}

\* C4 witness: a successful "both" response with both fields populated.
C4_Witness ==
    \E r \in Reqs :
        /\ request[r].endpoint = "/compile"
        /\ pc[r] = "done"
        /\ response[r].success
        /\ request[r].output_format = "both"
        /\ response[r].pdf_base64 # None
        /\ response[r].png_base64 # None

\* C5: after any failure of the compiler or the rasterizer (non-zero exit, timeout,
\* zero exit without the output file, a binary that cannot be started), POST /compile
\* answers 500 with a non-empty message and never success=true.
C5_ToolFailureIs500 ==
    \A r \in Reqs :
        /\ request[r].endpoint = "/compile"
        /\ pc[r] = "done"
        /\ proc[r].pdflatex \in ToolFailures \/ proc[r].convert \in ToolFailures
        => /\ response[r].status = 500
           /\ response[r].message # <<>>
           /\ ~response[r].success

\* C5 witness: output_format "both", the PDF already encoded, then the rasterizer
\* exits non-zero: the answer is 500.
C5_Witness ==
    \E r \in Reqs :
        /\ request[r].endpoint = "/compile"
        /\ pc[r] = "done"
        /\ request[r].output_format = "both"
        /\ response_data[r].pdf_base64 # None
        /\ proc[r].convert = "nonzero"
        /\ response[r].status = 500

\* C7: an upload that is not valid UTF-8 gets 400 and never enters compile_tikz: no
\* temporary directory, no file or tool touched.
C7_NonUtf8Rejected ==
    \A r \in Reqs :
        /\ request[r].endpoint = "/compile-file"
        /\ ~ValidUtf8(request[r].content)
        => /\ pc[r] \in {"compile_tikz_file", "done"}
           /\ temp_dir[r] = NoDir
           /\ calls[r] = <<>>
           /\ proc[r] = NoProc
           /\ pc[r] = "done" => response[r].status = 400

\* C7 witness: a .tex upload that ends in the middle of a two-byte sequence was
\* answered with 400.
C7_Witness ==
    \E r \in Reqs :
        /\ request[r].endpoint = "/compile-file"
        /\ HasAllowedExtension(request[r].filename)
        /\ request[r].content = <<97, 195>>
        /\ pc[r] = "done"
        /\ response[r].status = 400

\* C10: within one request pdflatex runs at most once and only after tikz.tex was
\* written; convert runs at most once, only after pdflatex exited 0 with a tikz.pdf
\* and only for output_format "png" or "both"; and rmtree runs once, after every tool
\* invocation.
C10_StepOrder ==
    \A r \in Reqs :
        /\ Count(calls[r], "pdflatex") <= 1
        /\ Count(calls[r], "convert") <= 1
        /\ Count(calls[r], "rmtree") <= 1
        /\ Count(calls[r], "pdflatex") = 1 => Before(calls[r], "write tikz.tex", "pdflatex")
        /\ Count(calls[r], "convert") = 1 =>
            /\ Before(calls[r], "pdflatex", "convert")
            /\ proc[r].pdflatex = "exit 0, pdf"
            /\ request[r].output_format \in {"png", "both"}
        /\ proc[r].pdflatex \in ToolFailures => proc[r].convert = "not run"
        /\ Count(calls[r], "rmtree") = 1 => calls[r][Len(calls[r])] = "rmtree"

\* C10 witness: a "both" request that went through every step, in order.
C10_Witness ==
    \E r \in Reqs :
        /\ pc[r] = "done"
        /\ calls[r] = <<"mkdtemp", "write tikz.tex", "pdflatex", "read tikz.pdf",
                        "convert", "read tikz.png", "rmtree">>

\* C3: for an upload with an allowed extension and valid UTF-8 content, POST
\* /compile-file ends as compile_tikz ends for that text with output_format "both":
\* the same status and, on success, the same fields; a blank file gets 400 and a
\* failed tool 500.
C3_FileSameAsCompile ==
    \A r \in Reqs :
        /\ request[r].endpoint = "/compile-file"
        /\ HasAllowedExtension(request[r].filename)
        /\ ValidUtf8(request[r].content)
        /\ pc[r] = "done"
        => /\ request[r].output_format = "both"
           /\ response[r].status = (IF exc[r].status # 0 THEN exc[r].status ELSE 200)
           /\ response[r].success =>
                /\ response[r].pdf_base64 = response_data[r].pdf_base64
                /\ response[r].png_base64 = response_data[r].png_base64
           /\ Blank(request[r].tikz_code) => response[r].status = 400
           /\ proc[r].pdflatex \in ToolFailures \/ proc[r].convert \in ToolFailures
                => response[r].status = 500

\* The substrings the log is searched for
Recognized(text) ==
    \E i \in 1..Len(text) :
        text[i] \in {LatexError, UndefinedCS, TikzError, PgfplotsError,
                     LibraryNotFound, LibraryNotFoundCaps}

\* The text of the first category, in priority order, that a log matches
CategoryText(text) ==
    IF Contains(text, LatexError) THEN LatexError
    ELSE IF Contains(text, UndefinedCS) THEN UndefinedCSText
    ELSE IF Contains(text, TikzError) THEN TikzErrorText
    ELSE IF Contains(text, PgfplotsError) THEN PgfplotsErrorText
    ELSE LibraryText

\* C6: when the compiler exits non-zero and tikz.log holds a recognized substring,
\* wherever in the log, the 500 message carries the text of the first matching
\* category and never "Unknown LaTeX error".
C6_LogCategoryReported ==
    \A r \in Reqs :
        /\ pc[r] = "done"
        /\ proc[r].pdflatex = "nonzero"
        /\ proc[r].log # Absent
        /\ Recognized(proc[r].log.text)
        => /\ response[r].status = 500
           /\ Contains(response[r].message, CategoryText(proc[r].log.text))
           /\ ~Contains(response[r].message, UnknownError)

ProbeOrder ==
    <<"pdflatex", "tikz.sty", "pgfplots.sty", "arrows", "decorations", "positioning",
      "shapes", "convert">>

CriticalProbesSucceed ==
    /\ probes["pdflatex"] = "exit 0"
    /\ probes["tikz.sty"] = "exit 0"
    /\ probes["convert"] = "exit 0"

\* A probe in S that raised left every later probe unrun, and the status unhealthy.
RaiseStopsProbes(S) ==
    \A i \in 1..Len(ProbeOrder) :
        ProbeOrder[i] \in S /\ probes[ProbeOrder[i]] = "raise"
        => /\ health.status = "unhealthy"
           /\ \A j \in (i + 1)..Len(ProbeOrder) : probes[ProbeOrder[j]] = "not run"

\* C8 as claimed: /health is "healthy" exactly when the compiler check, the tikz.sty
\* lookup and the rasterizer check exit 0, "unhealthy" otherwise, and any probe that
\* raises leaves the later probes unrecorded and the status unhealthy.
C8_AnyRaiseUnhealthy ==
    health.status # "" =>
        /\ health.status \in {"healthy", "unhealthy"}
        /\ health.status = "healthy" <=> CriticalProbesSucceed
        /\ RaiseStopsProbes(ProbeNames)

\* C8 as amended: /health is "healthy" exactly when the compiler check, the tikz.sty
\* lookup and the rasterizer check exit 0, "unhealthy" otherwise; a compiler,
\* tikz.sty, pgfplots.sty or rasterizer probe that raises leaves the later probes
\* unrecorded and the status unhealthy; a library lookup that raises is passed over:
\* the library is left out of the list and the later probes still run.
C8_MainRaiseUnhealthy ==
    health.status # "" =>
        /\ health.status \in {"healthy", "unhealthy"}
        /\ health.status = "healthy" <=> CriticalProbesSucceed
        /\ RaiseStopsProbes(MainProbes)
        /\ \A i \in 1..Len(Libraries) :
            probes[Libraries[i]] = "raise" =>
                /\ probes["convert"] # "not run"
                /\ \A j \in (i + 1)..Len(Libraries) : probes[Libraries[j]] # "not run"
                /\ \A k \in 1..Len(health.info.tikz_libraries) :
                        health.info.tikz_libraries[k] # Libraries[i]

\* C8 witness: healthy although the pgfplots lookup failed and a library lookup
\* raised.
C8_Witness ==
    /\ health.status = "healthy"
    /\ probes["pgfplots.sty"] = "nonzero"
    /\ probes["arrows"] = "raise"
    /\ probes["shapes"] = "nonzero"

\* C9: requests in flight hold distinct temporary directories; the directory of a
\* request in flight exists and holds only files made from that request's source;
\* and what a request has encoded, and returns, is made from its own source.
C9_Isolation ==
    /\ \A r1, r2 \in Reqs :
        r1 # r2 /\ pc[r1] \in InTry /\ pc[r2] \in InTry => temp_dir[r1] # temp_dir[r2]
    /\ \A r \in Reqs :
        LET tex == TexOf(request[r].tikz_code)
        IN  /\ pc[r] \in InTry =>
                /\ fs[temp_dir[r]].exists
                /\ fs[temp_dir[r]].tex \in {Absent, tex}
                /\ fs[temp_dir[r]].pdf \in {Absent, PdfOf(tex)}
                /\ fs[temp_dir[r]].png \in {Absent, PngOf(PdfOf(tex))}
            /\ response_data[r].pdf_base64 \in {None, Base64(PdfOf(tex))}
            /\ response_data[r].png_base64 \in {None, Base64(PngOf(PdfOf(tex)))}
            /\ response[r].success =>
                /\ response[r].pdf_base64 = Base64(PdfOf(tex))
                /\ response[r].png_base64 = Base64(PngOf(PdfOf(tex)))

\* C9 witness: one request has returned its own PDF and PNG while another, with a
\* different source, is rasterizing in its own directory.
C9_Witness ==
    \E r1, r2 \in Reqs :
        /\ request[r1].tikz_code # request[r2].tikz_code
        /\ pc[r1] = "done"
        /\ response[r1].success
        /\ pc[r2] = "output_png"
        /\ fs[temp_dir[r2]].pdf = PdfOf(TexOf(request[r2].tikz_code))

====
